---------------------------- MODULE Spec2Model ----------------------------
(***************************************************************************)
(* Model of the LINE stock bot in src/main.py: the watchlist file          *)
(* (load_tickers / save_tickers), quote resolution against the FinMind     *)
(* provider (get_stock_info / get_stock_name / get_stock_prices), the      *)
(* command dispatcher (handle_message), the broadcast (push_stock_message) *)
(* and the polling scheduler.                                              *)
(*                                                                         *)
(* Text is modelled as it is in Python: a str is a sequence of Unicode     *)
(* code points, so that strip, startswith, replace, isdigit, sorted and    *)
(* the "\n".join / readlines round trip are computed, not assumed.         *)
(***************************************************************************)
EXTENDS Integers, Sequences, FiniteSets, TLC

(***************************************************************************)
(* Bounds of the model.                                                    *)
(***************************************************************************)
\* longest ticker argument built from CodeChars that a user types
MaxCodeLen == 1
\* the watchlist is not grown beyond this many lines by a track command
MaxTickers == 3
\* the provider's table covers the dates D .. D-MaxOffset
MaxOffset == 5
\* the scheduler starts within the 30 seconds from this second of the day
\* (12:59:00) and is followed up to second Horizon (13:02:00 a day later)
StartFrom == 46740
Horizon == 133320
\* a broadcast takes 0 .. MaxDuration seconds
MaxDuration == 40
\* a sleep or a clock reading is late by 0 .. MaxJitter seconds
MaxJitter == 1

(***************************************************************************)
(* Characters (code points) and the literal strings of the program.        *)
(***************************************************************************)
\* "清單", "追蹤", "刪除", "股價"
KW_LIST == <<28165, 21934>>
KW_TRACK == <<36861, 36452>>
KW_UNTRACK == <<21034, 38500>>
KW_PRICE == <<32929, 20729>>

\* ".TW"
TW_SUFFIX == <<46, 84, 87>>

\* "0050\n0056\n00878\n00919\n2330\n2317\n2382\n2010"
SEED == <<48, 48, 53, 48, 10, 48, 48, 53, 54, 10, 48, 48, 56, 55, 56, 10,
          48, 48, 57, 49, 57, 10, 50, 51, 51, 48, 10, 50, 51, 49, 55, 10,
          50, 51, 56, 50, 10, 50, 48, 49, 48>>

\* "📋 目前追蹤清單：\n" and "目前追蹤清單是空的。"
LIST_HEADER == <<128203, 32, 30446, 21069, 36861, 36452, 28165, 21934, 65306, 10>>
LIST_EMPTY == <<30446, 21069, 36861, 36452, 28165, 21934, 26159, 31354, 30340, 12290>>
\* "✅ 已新增 " ... " 到追蹤清單"
ADDED_PRE == <<9989, 32, 24050, 26032, 22686, 32>>
ADDED_POST == <<32, 21040, 36861, 36452, 28165, 21934>>
\* "請輸入格式：追蹤 [代碼]"
USAGE == <<35531, 36664, 20837, 26684, 24335, 65306, 36861, 36452, 32, 91, 20195, 30908, 93>>
\* "🗑️ 已刪除 " ... " 從追蹤清單"
REMOVED_PRE == <<128465, 65039, 32, 24050, 21034, 38500, 32>>
REMOVED_POST == <<32, 24478, 36861, 36452, 28165, 21934>>
\* " 不在清單中"
NOTPRESENT_POST == <<32, 19981, 22312, 28165, 21934, 20013>>
\* the help text of the final else branch
HELP == <<21487, 29992, 25351, 20196, 65306, 10, 128200, 32, 36861, 36452, 32, 91,
          20195, 30908, 93, 10, 128465, 65039, 32, 21034, 38500, 32, 91, 20195,
          30908, 93, 10, 128203, 32, 28165, 21934, 10, 128176, 32, 32929, 20729,
          32, 91, 20195, 30908, 93>>
\* "\n收盤價：", "（", "）"
CLOSE_PRE == <<10, 25910, 30436, 20729, 65306>>
LPAREN == <<65288>>
RPAREN == <<65289>>
\* " 無法取得資料（可能代碼錯誤或近期無交易）"
NOTFOUND_POST == <<32, 28961, 27861, 21462, 24471, 36039, 26009, 65288, 21487, 33021,
                   20195, 30908, 37679, 35492, 25110, 36817, 26399, 28961, 20132,
                   26131, 65289>>
\* "📈 台股追蹤（" ... "）\n\n"
PUSH_PRE == <<128200, 32, 21488, 32929, 36861, 36452, 65288>>
PUSH_POST == <<65289, 10, 10>>
\* "\n" and "\n\n", the separators of save_tickers and get_stock_prices
NL == <<10>>
BLANK_LINE == <<10, 10>>

(***************************************************************************)
(* Python str operations.                                                  *)
(***************************************************************************)
\* the characters str.strip() removes
WhiteSpace == {9, 10, 11, 12, 13, 28, 29, 30, 31, 32, 133, 160, 5760, 8232, 8233,
               8239, 8287, 12288} \cup (8192..8202)

\* the characters that end a line for readlines() (universal newlines)
LineBreaks == {10, 13}

RECURSIVE LStrip(_)
LStrip(s) ==
    IF s = <<>> THEN <<>>
    ELSE IF Head(s) \in WhiteSpace THEN LStrip(Tail(s)) ELSE s

RECURSIVE RStrip(_)
RStrip(s) ==
    IF s = <<>> THEN <<>>
    ELSE IF s[Len(s)] \in WhiteSpace THEN RStrip(SubSeq(s, 1, Len(s) - 1)) ELSE s

\* s.strip()
Strip(s) == RStrip(LStrip(s))

\* s.startswith(p)
StartsWith(s, p) == Len(s) >= Len(p) /\ SubSeq(s, 1, Len(p)) = p

\* s.endswith(p)
EndsWith(s, p) == Len(s) >= Len(p) /\ SubSeq(s, Len(s) - Len(p) + 1, Len(s)) = p

\* s.replace(old, ""), old non-empty: every occurrence, left to right
RECURSIVE Remove(_, _)
Remove(s, old) ==
    IF s = <<>> THEN <<>>
    ELSE IF StartsWith(s, old) THEN Remove(SubSeq(s, Len(old) + 1, Len(s)), old)
    ELSE <<Head(s)>> \o Remove(Tail(s), old)

\* s.isdigit(), for the ASCII digits
IsDigit(s) == s # <<>> /\ \A i \in 1..Len(s) : s[i] \in 48..57

\* a < b as Python compares str: by code point, a proper prefix first
RECURSIVE StrLess(_, _)
StrLess(a, b) ==
    IF b = <<>> THEN FALSE
    ELSE IF a = <<>> THEN TRUE
    ELSE IF Head(a) # Head(b) THEN Head(a) < Head(b)
    ELSE StrLess(Tail(a), Tail(b))

\* sep.join(parts)
RECURSIVE Join(_, _)
Join(parts, sep) ==
    IF parts = <<>> THEN <<>>
    ELSE IF Len(parts) = 1 THEN parts[1]
    ELSE parts[1] \o sep \o Join(Tail(parts), sep)

\* the lines of a text as readlines() cuts it (line ends dropped)
RECURSIVE SplitLines(_, _)
SplitLines(s, cur) ==
    IF s = <<>> THEN (IF cur = <<>> THEN <<>> ELSE <<cur>>)
    ELSE IF Head(s) \in LineBreaks THEN <<cur>> \o SplitLines(Tail(s), <<>>)
    ELSE SplitLines(Tail(s), Append(cur, Head(s)))

\* set(xs)
ToSet(xs) == {xs[i] : i \in 1..Len(xs)}

\* sorted(S) for a set of str
RECURSIVE Sorted(_)
Sorted(S) ==
    IF S = {} THEN <<>>
    ELSE LET m == CHOOSE x \in S : \A y \in S \ {x} : StrLess(x, y)
         IN <<m>> \o Sorted(S \ {m})

\* [x for x in xs if keep(x)] with strip applied, as in load_tickers
RECURSIVE StripNonEmpty(_)
StripNonEmpty(xs) ==
    IF xs = <<>> THEN <<>>
    ELSE IF Strip(Head(xs)) = <<>> THEN StripNonEmpty(Tail(xs))
    ELSE <<Strip(Head(xs))>> \o StripNonEmpty(Tail(xs))

\* tickers.remove(code): drops the first occurrence
RECURSIVE RemoveFirst(_, _)
RemoveFirst(xs, x) ==
    IF xs = <<>> THEN <<>>
    ELSE IF Head(xs) = x THEN Tail(xs)
    ELSE <<Head(xs)>> \o RemoveFirst(Tail(xs), x)

\* how many times x occurs in xs
Count(xs, x) == Cardinality({i \in 1..Len(xs) : xs[i] = x})

(***************************************************************************)
(* The watchlist file.                                                     *)
(***************************************************************************)
\* load_tickers() on a file whose content is f
load_tickers(f) == StripNonEmpty(SplitLines(f, <<>>))

\* what save_tickers(tickers) writes
FileContent(tickers) == Join(Sorted(ToSet(tickers)), NL)

(***************************************************************************)
(* The FinMind provider, as one call of get_stock_info sees it: the answer *)
(* to the price request for each date D-i, the answer to the name request, *)
(* and the open field of the records it holds.  "err" is a transport,      *)
(* timeout or parse failure: requests.get or r.json() raises.              *)
(***************************************************************************)
PriceOutcomes == {"rec", "none", "err"}
NameOutcomes == {"name", "empty", "err"}
\* the open prices: none (0), and two among the closes
Opens == {0, 100, 102}
AllProfiles == [price : [0..MaxOffset -> PriceOutcomes], name : NameOutcomes,
                open : Opens]

\* range(5): the number of dates get_stock_info tries
WINDOW == 5

\* the close and date fields of the record the provider holds for date D-i:
\* the close is 100 + i, which the f-string renders "10i"
CloseValue(i) == 100 + i
RecClose(i) == <<49, 48, 48 + i>>
RecDate(i) == IF i = 0 THEN <<68>> ELSE <<68, 45, 48 + i>>
\* the stock_name field the provider holds
STOCK_NAME == <<78>>

\* the data_id both lookups send: ".TW" appended unless already there
WithTW(stock_code) ==
    IF EndsWith(stock_code, TW_SUFFIX) THEN stock_code ELSE stock_code \o TW_SUFFIX

PriceRequest(code_tw, i) == [dataset |-> "TaiwanStockPrice", data_id |-> code_tw, offset |-> i]
NameRequest(code_tw) == [dataset |-> "TaiwanStockInfo", data_id |-> code_tw, offset |-> 0]

\* get_stock_name(stock_code) when the call returns
get_stock_name(prof) == IF prof.name = "name" THEN STOCK_NAME ELSE <<>>

QuoteText(code_tw, name, i) ==
    Remove(code_tw, TW_SUFFIX) \o <<32>> \o name \o CLOSE_PRE \o RecClose(i)
        \o LPAREN \o RecDate(i) \o RPAREN

NotFoundText(code_tw) == Remove(code_tw, TW_SUFFIX) \o NOTFOUND_POST

\* the loop of get_stock_info from its i-th iteration on, reqs being the
\* requests issued so far.  The result: raised (an exception left the
\* function), text (the value returned otherwise), kind and offset (which
\* return statement, which date), requests (every request issued).
RECURSIVE InfoLoop(_, _, _, _)
InfoLoop(code_tw, prof, i, reqs) ==
    IF i >= WINDOW
    THEN [raised |-> FALSE, kind |-> "notfound", offset |-> i,
          text |-> NotFoundText(code_tw), requests |-> reqs]
    ELSE LET sent == Append(reqs, PriceRequest(code_tw, i))
         IN CASE prof.price[i] = "err" ->
                   [raised |-> TRUE, kind |-> "error", offset |-> i,
                    text |-> <<>>, requests |-> sent]
              [] prof.price[i] = "rec" ->
                   IF prof.name = "err"
                   THEN [raised |-> TRUE, kind |-> "error", offset |-> i,
                         text |-> <<>>,
                         requests |-> Append(sent, NameRequest(code_tw))]
                   ELSE [raised |-> FALSE, kind |-> "quote", offset |-> i,
                         text |-> QuoteText(code_tw, get_stock_name(prof), i),
                         requests |-> Append(sent, NameRequest(code_tw))]
              [] OTHER -> InfoLoop(code_tw, prof, i + 1, sent)

\* get_stock_info without "date -= timedelta(days=1)": every lookup is
\* answered as the one for D
get_stock_info_NoStepBack(stock_code, prof) ==
    InfoLoop(WithTW(stock_code),
             [prof EXCEPT !.price = [i \in 0..MaxOffset |-> prof.price[0]]], 0, <<>>)

\* get_stock_info(stock_code) against a provider answering as prof
get_stock_info(stock_code, prof) == InfoLoop(WithTW(stock_code), prof, 0, <<>>)

\* the list comprehension of get_stock_prices over tickers[k..], profs[k]
\* being the provider's answers to the k-th ticker's requests; it stops at
\* the first call that raises
RECURSIVE InfoAll(_, _, _, _, _)
InfoAll(tickers, profs, k, results, reqs) ==
    IF k > Len(tickers)
    THEN [raised |-> FALSE, results |-> results, requests |-> reqs]
    ELSE LET r == get_stock_info(tickers[k], profs[k])
         IN IF r.raised
            THEN [raised |-> TRUE, results |-> results, requests |-> reqs \o r.requests]
            ELSE InfoAll(tickers, profs, k + 1, Append(results, r.text),
                         reqs \o r.requests)

\* get_stock_prices joining the results last ticker first
get_stock_prices_Reversed(f, profs) ==
    LET r == InfoAll(load_tickers(f), profs, 1, <<>>, <<>>)
        n == Len(r.results)
    IN [raised |-> r.raised,
        text |-> IF r.raised THEN <<>>
                 ELSE Join([i \in 1..n |-> r.results[n + 1 - i]], BLANK_LINE),
        results |-> r.results,
        requests |-> r.requests]

\* get_stock_prices() on a file whose content is f
get_stock_prices(f, profs) ==
    LET r == InfoAll(load_tickers(f), profs, 1, <<>>, <<>>)
    IN [raised |-> r.raised,
        text |-> IF r.raised THEN <<>> ELSE Join(r.results, BLANK_LINE),
        results |-> r.results,
        requests |-> r.requests]

(***************************************************************************)
(* handle_message: the command dispatcher.                                 *)
(***************************************************************************)
\* the branch of the if / elif chain that the stripped text takes
Branch(text) ==
    CASE text = KW_LIST -> "list"
      [] text # KW_LIST /\ StartsWith(text, KW_TRACK) -> "track"
      [] text # KW_LIST /\ ~StartsWith(text, KW_TRACK) /\ StartsWith(text, KW_UNTRACK)
            -> "untrack"
      [] OTHER -> IF text = KW_PRICE THEN "price"
                  ELSE IF IsDigit(text) THEN "one" ELSE "help"

\* code = text.replace(keyword, "").strip()
CodeOf(text, keyword) == Strip(Remove(text, keyword))

ListReply(tickers) ==
    IF tickers # <<>> THEN LIST_HEADER \o Join(tickers, NL) ELSE LIST_EMPTY
AddedReply(code) == ADDED_PRE \o code \o ADDED_POST
RemovedReply(code) == REMOVED_PRE \o code \o REMOVED_POST
NotPresentReply(code) == code \o NOTPRESENT_POST

\* what the track branch does: the reply and the content it saves, if any
TrackBranch(text, tickers) ==
    LET code == CodeOf(text, KW_TRACK)
    IN IF code # <<>>
       THEN [reply |-> AddedReply(code), saves |-> <<FileContent(Append(tickers, code))>>]
       ELSE [reply |-> USAGE, saves |-> <<>>]

\* what the untrack branch does
UntrackBranch(text, tickers) ==
    LET code == CodeOf(text, KW_UNTRACK)
    IN IF code \in ToSet(tickers)
       THEN [reply |-> RemovedReply(code),
             saves |-> <<FileContent(RemoveFirst(tickers, code))>>]
       ELSE [reply |-> NotPresentReply(code), saves |-> <<>>]

\* handle_message on the message raw, the file holding f, the provider
\* answering the k-th get_stock_info call as profs[k].  The result: replies
\* (the texts handed to reply_message), raised (an exception left the
\* handler), saves (the contents save_tickers wrote, in order), requests
\* (the provider requests issued), reads (how many times load_tickers ran).
handle_message(raw, f, profs) ==
    LET text == Strip(raw)
        tickers == load_tickers(f)
        b == Branch(text)
        quiet(reply) == [raised |-> FALSE, replies |-> <<reply>>, saves |-> <<>>,
                         requests |-> <<>>, reads |-> 1]
        quoted(r, n) == [raised |-> r.raised,
                         replies |-> IF r.raised THEN <<>> ELSE <<r.text>>,
                         saves |-> <<>>, requests |-> r.requests, reads |-> n]
    IN CASE b = "list" -> quiet(ListReply(tickers))
         [] b = "track" ->
               LET t == TrackBranch(text, tickers)
               IN [raised |-> FALSE, replies |-> <<t.reply>>, saves |-> t.saves,
                   requests |-> <<>>, reads |-> 1]
         [] b = "untrack" ->
               LET u == UntrackBranch(text, tickers)
               IN [raised |-> FALSE, replies |-> <<u.reply>>, saves |-> u.saves,
                   requests |-> <<>>, reads |-> 1]
         [] b = "price" -> quoted(get_stock_prices(f, profs), 2)
         [] b = "one" -> quoted(get_stock_info(text, profs[1]), 1)
         [] OTHER -> quiet(HELP)

\* the file after the writes ws, each replacing the whole content
AfterSaves(f, ws) == IF ws = <<>> THEN f ELSE ws[Len(ws)]

(***************************************************************************)
(* push_stock_message: the broadcast.                                      *)
(***************************************************************************)
\* datetime.now(tz).strftime("%Y-%m-%d %H:%M") at the trigger of hour h,
\* the date written D
NowText(h) == <<68, 32, 49, 48 + (h - 10), 58, 48, 48>>

\* the loop without its try / except: the first attempt that raises ends it
RECURSIVE PushAll_StopAtFailure(_, _, _)
PushAll_StopAtFailure(uids, message, failed) ==
    IF uids = <<>> THEN <<>>
    ELSE <<[uid |-> Head(uids), text |-> message, ok |-> Head(uids) \notin failed]>>
         \o (IF Head(uids) \in failed THEN <<>>
             ELSE PushAll_StopAtFailure(Tail(uids), message, failed))

\* one push_message attempt per uid, in order; failed holds the uids whose
\* attempt raises (caught and printed)
RECURSIVE PushAll(_, _, _)
PushAll(uids, message, failed) ==
    IF uids = <<>> THEN <<>>
    ELSE <<[uid |-> Head(uids), text |-> message, ok |-> Head(uids) \notin failed]>>
         \o PushAll(Tail(uids), message, failed)

\* push_stock_message() with LINE_USER_IDS = uids.  The result: raised,
\* pushes (the push_message attempts), requests, reads (how many times the
\* watchlist file was read).
push_stock_message(uids, f, h, profs, failed) ==
    IF uids = <<>>
    THEN [raised |-> FALSE, pushes |-> <<>>, requests |-> <<>>, reads |-> 0]
    ELSE LET r == get_stock_prices(f, profs)
         IN IF r.raised
            THEN [raised |-> TRUE, pushes |-> <<>>, requests |-> r.requests, reads |-> 1]
            ELSE [raised |-> FALSE,
                  pushes |-> PushAll(uids, PUSH_PRE \o NowText(h) \o PUSH_POST \o r.text,
                                     failed),
                  requests |-> r.requests, reads |-> 1]

(***************************************************************************)
(* The inputs the model draws.                                             *)
(***************************************************************************)
\* "1" is a numeric code, "A" is not a ticker code
CodeChars == {49, 65}
ShortCodes == UNION {[1..n -> CodeChars] : n \in 1..MaxCodeLen}
\* "2330" and "2010", two tickers of the seed
SeedPicks == {<<50, 51, 51, 48>>, <<50, 48, 49, 48>>}
Codes == ShortCodes \cup SeedPicks
\* what follows the keyword: nothing, a code, or two lines "1\nA"
Args == {<<>>} \cup Codes \cup {<<49, 10, 65>>}
Keywords == {KW_LIST, KW_TRACK, KW_UNTRACK, KW_PRICE}
\* the message texts: an optional keyword, an optional space, an argument
Texts == {kw \o sep \o arg : kw \in Keywords \cup {<<>>}, sep \in {<<>>, <<32>>},
                                arg \in Args}

\* a provider answering "p0" for D, "p1" for D-1, no record further back
Prof(p0, p1, nm) ==
    [price |-> [i \in 0..MaxOffset |-> IF i = 0 THEN p0 ELSE IF i = 1 THEN p1 ELSE "none"],
     name |-> nm, open |-> 100]
DispatchProfiles ==
    {Prof("rec", "none", "name"), Prof("none", "rec", "name"), Prof("none", "none", "name"),
     Prof("err", "none", "name"), Prof("rec", "none", "empty"), Prof("rec", "none", "err")}
\* the provider's answers over a batch of n tickers: the same for every
\* ticker, or a quote today for all but the j-th
BatchScenarios(n) ==
    {[k \in 1..n |-> p] : p \in DispatchProfiles}
    \cup {[k \in 1..n |-> IF k = j THEN p ELSE Prof("rec", "none", "name")] :
            p \in DispatchProfiles, j \in 1..n}

\* LINE_USER_IDS as configured
UserConfigs == {<<>>, <<"U1">>, <<"U1", "U2">>}

\* module initialisation that writes the seed whether or not the file exists
SeedIfAbsent_Always(exists, f) == SEED

\* "if not os.path.exists(TICKER_FILE)": the seed is written when the file
\* is absent, and a file that exists keeps its content f
SeedIfAbsent(exists, f) == IF exists THEN f ELSE SEED

\* tickers.txt after the first start-up: it was absent (the seed is
\* written), or left empty by an earlier run in which every ticker was
\* untracked
InitFiles == {SeedIfAbsent(FALSE, <<>>), SeedIfAbsent(TRUE, <<>>)}

\* the handler threads of the concurrent specification
Threads == {1, 2}

(***************************************************************************)
(* State.                                                                  *)
(***************************************************************************)
VARIABLES
    file,        \* the content of tickers.txt
    users,       \* LINE_USER_IDS
    pc,          \* "idle", "handled" (handle_message ended), "pushed" (a broadcast ended)
    text,        \* the text of the message being handled
    before,      \* the content of tickers.txt when the handler or broadcast began
    replies,     \* the texts handed to reply_message by this handler
    raised,      \* an exception left the handler or the broadcast
    requests,    \* the provider requests issued by this handler or broadcast
    saves,       \* the contents written by save_tickers in this handler
    pushes,      \* the push_message attempts of this broadcast
    reads,       \* how many times this handler or broadcast read tickers.txt
    schedAlive,  \* the scheduler thread is running
    prov,        \* the provider's answers to the get_stock_info call being checked
    thr,         \* the handler threads of the concurrent specification
    clock,       \* wall-clock time in Asia/Taipei, in seconds since a midnight
    fired        \* the minutes (since that midnight) at which a broadcast began

vars == <<file, users, pc, text, before, replies, raised, requests, saves, pushes,
          reads, schedAlive, prov, thr, clock, fired>>

\* what the sequential dispatcher leaves alone
others == <<prov, thr, clock, fired>>

\* a handler thread that has no message
NoThread == [pc |-> "none", raw |-> <<>>, tickers |-> <<>>, content |-> <<>>,
             reply |-> <<>>]

\* module initialisation: no request in progress, the scheduler thread
\* started; the seed is written unless the file exists
Started ==
    /\ pc = "idle"
    /\ text = <<>>
    /\ before = file
    /\ replies = <<>>
    /\ raised = FALSE
    /\ requests = <<>>
    /\ saves = <<>>
    /\ pushes = <<>>
    /\ reads = 0
    /\ schedAlive = TRUE
    /\ prov = <<>>
    /\ thr = [t \in Threads |-> NoThread]
    /\ fired = <<>>

Init ==
    /\ file \in InitFiles
    /\ users \in UserConfigs
    /\ clock = 0
    /\ Started

\* the watchlist does not outgrow the model's bound
Bounded(f, g) ==
    \/ Len(load_tickers(g)) <= MaxTickers
    \/ Len(load_tickers(g)) <= Len(load_tickers(f))

\* callback -> handler.handle -> handle_message(event), to its end
Handle(raw, profs) ==
    LET r == handle_message(raw, file, profs)
    IN /\ pc = "idle"
       /\ Bounded(file, AfterSaves(file, r.saves))
       /\ file' = AfterSaves(file, r.saves)
       /\ pc' = "handled"
       /\ text' = raw
       /\ before' = file
       /\ replies' = r.replies
       /\ raised' = r.raised
       /\ requests' = r.requests
       /\ saves' = r.saves
       /\ pushes' = <<>>
       /\ reads' = r.reads
       /\ UNCHANGED <<users, schedAlive>>

\* the message texts that take each branch of handle_message
TextsOf(branch) == {raw \in Texts : Branch(Strip(raw)) = branch}

ListCommand ==
    /\ pc = "idle"
    /\ \E raw \in TextsOf("list") : Handle(raw, <<>>)
    /\ UNCHANGED others

TrackCommand ==
    /\ pc = "idle"
    /\ \E raw \in TextsOf("track") : Handle(raw, <<>>)
    /\ UNCHANGED others

UntrackCommand ==
    /\ pc = "idle"
    /\ \E raw \in TextsOf("untrack") : Handle(raw, <<>>)
    /\ UNCHANGED others

QuoteAllCommand ==
    /\ pc = "idle"
    /\ \E raw \in TextsOf("price") :
         \E profs \in BatchScenarios(Len(load_tickers(file))) : Handle(raw, profs)
    /\ UNCHANGED others

QuoteOneCommand ==
    /\ pc = "idle"
    /\ \E raw \in TextsOf("one") : \E prof \in DispatchProfiles : Handle(raw, <<prof>>)
    /\ UNCHANGED others

HelpCommand ==
    /\ pc = "idle"
    /\ \E raw \in TextsOf("help") : Handle(raw, <<>>)
    /\ UNCHANGED others

\* callback returns "OK" (or the server answers 500 after an exception):
\* the request is over
CallbackReturn ==
    /\ pc = "handled"
    /\ pc' = "idle"
    /\ text' = <<>>
    /\ before' = file
    /\ replies' = <<>>
    /\ raised' = FALSE
    /\ requests' = <<>>
    /\ saves' = <<>>
    /\ pushes' = <<>>
    /\ reads' = 0
    /\ prov' = <<>>
    /\ UNCHANGED <<file, users, schedAlive, thr, clock, fired>>

\* the scheduler finds a trigger minute and runs push_stock_message()
Broadcast ==
    /\ pc = "idle"
    /\ schedAlive
    /\ \E h \in {13, 14} : \E profs \in BatchScenarios(Len(load_tickers(file))) :
         \E failed \in SUBSET ToSet(users) :
            LET r == push_stock_message(users, file, h, profs, failed)
            IN /\ raised' = r.raised
               /\ requests' = r.requests
               /\ pushes' = r.pushes
               /\ reads' = r.reads
               /\ schedAlive' = ~r.raised
    /\ pc' = "pushed"
    /\ text' = <<>>
    /\ before' = file
    /\ replies' = <<>>
    /\ saves' = <<>>
    /\ UNCHANGED <<file, users>>
    /\ UNCHANGED others

\* the broadcast is over: the scheduler sleeps, or its thread has ended
\* with the exception
BroadcastReturn ==
    /\ pc = "pushed"
    /\ pc' = "idle"
    /\ raised' = FALSE
    /\ requests' = <<>>
    /\ pushes' = <<>>
    /\ reads' = 0
    /\ UNCHANGED <<file, users, text, before, replies, saves, schedAlive>>
    /\ UNCHANGED others

\* the process is stopped and started again: the module initialisation
\* runs once more, on the tickers.txt the earlier run left (the program
\* never deletes it), and starts a new scheduler thread
Restart ==
    /\ pc = "idle"
    /\ file' = SeedIfAbsent(TRUE, file)
    /\ pc' = "restarted"
    /\ before' = file
    /\ schedAlive' = TRUE
    /\ UNCHANGED <<users, text, replies, raised, requests, saves, pushes, reads>>
    /\ UNCHANGED others

\* app.run: the restarted process accepts messages
Serve ==
    /\ pc = "restarted"
    /\ pc' = "idle"
    /\ before' = file
    /\ UNCHANGED <<file, users, text, replies, raised, requests, saves, pushes, reads,
                   schedAlive>>
    /\ UNCHANGED others

Next ==
    \/ ListCommand
    \/ TrackCommand
    \/ UntrackCommand
    \/ QuoteAllCommand
    \/ QuoteOneCommand
    \/ HelpCommand
    \/ CallbackReturn
    \/ Broadcast
    \/ BroadcastReturn
    \/ Restart
    \/ Serve

Spec == Init /\ [][Next]_vars

(***************************************************************************)
(* Quote resolution on its own: a bare numeric message against every       *)
(* provider table over D .. D-MaxOffset (specification SpecResolve).       *)
(***************************************************************************)
InitResolve ==
    /\ file = SEED
    /\ users = <<>>
    /\ clock = 0
    /\ Started

\* handle_message on a bare numeric text: reply = get_stock_info(text)
ResolveOne ==
    /\ pc = "idle"
    /\ \E raw \in TextsOf("one") : \E prof \in AllProfiles :
          /\ Handle(raw, <<prof>>)
          /\ prov' = prof
    /\ UNCHANGED <<thr, clock, fired>>

NextResolve == ResolveOne \/ CallbackReturn

SpecResolve == InitResolve /\ [][NextResolve]_vars

(***************************************************************************)
(* Properties of the dispatcher and the watchlist (specification Spec).    *)
(***************************************************************************)
\* the stripped text of the message just handled, and its branch
Cmd == Strip(text)
Handled(branch) == pc = "handled" /\ Branch(Cmd) = branch

\* the watchlist as load_tickers returns it now / when the handler began
Watchlist == load_tickers(file)
WatchlistBefore == load_tickers(before)

\* a code that fits on one line of the file
SingleLine(t) == t # <<>> /\ \A i \in 1..Len(t) : t[i] \notin LineBreaks

\* the blocks of a multi-quote text, cut at the blank lines: the parts of
\* s[from..] between the occurrences of "\n\n"
RECURSIVE BlocksFrom(_, _)
BlocksFrom(s, from) ==
    LET cuts == {i \in from..(Len(s) - 1) : s[i] = 10 /\ s[i + 1] = 10}
    IN IF cuts = {} THEN <<SubSeq(s, from, Len(s))>>
       ELSE LET i == CHOOSE c \in cuts : \A d \in cuts : c <= d
            IN <<SubSeq(s, from, i - 1)>> \o BlocksFrom(s, i + 2)
SplitBlocks(s) == IF s = <<>> THEN <<>> ELSE BlocksFrom(s, 1)

\* C1: after a track of the one-line code t the watchlist holds t exactly
\* once, however often t was tracked before; every command other than an
\* untrack of t keeps a t that is there exactly once; and the list command
\* renders exactly the lines load_tickers returns.
C1_TrackOnce ==
    pc = "handled" =>
        /\ \A t \in ToSet(WatchlistBefore) \cup {CodeOf(Cmd, KW_TRACK)} :
              /\ (Branch(Cmd) = "track" /\ CodeOf(Cmd, KW_TRACK) = t /\ SingleLine(t))
                    => Count(Watchlist, t) = 1
              /\ (Count(WatchlistBefore, t) = 1
                     /\ ~(Branch(Cmd) = "untrack" /\ CodeOf(Cmd, KW_UNTRACK) = t))
                    => Count(Watchlist, t) = 1
        /\ (Branch(Cmd) = "list" /\ Watchlist # <<>>)
              => /\ Len(replies) = 1
                 /\ StartsWith(replies[1], LIST_HEADER)
                 /\ load_tickers(SubSeq(replies[1], Len(LIST_HEADER) + 1, Len(replies[1])))
                      = Watchlist

\* C2: an untrack of a code that is not in the watchlist replies "not in
\* list", writes nothing, leaves the file as it was and raises nothing; and
\* after any untrack of t, t is not in the watchlist, so that a second
\* untrack of t is such a case.
C2_UntrackAbsent ==
    Handled("untrack") =>
        /\ CodeOf(Cmd, KW_UNTRACK) \notin ToSet(WatchlistBefore)
              => /\ replies = <<NotPresentReply(CodeOf(Cmd, KW_UNTRACK))>>
                 /\ saves = <<>>
                 /\ file = before
                 /\ ~raised
        /\ CodeOf(Cmd, KW_UNTRACK) \notin ToSet(Watchlist)

\* C3: the list command renders the watchlist sorted ascending by code, in
\* every reachable state, the seeded one included.
C3_ListSorted ==
    Handled("list") => replies = <<ListReply(Sorted(ToSet(WatchlistBefore)))>>

\* C5: handle_message ends with exactly one reply sent and no exception
\* raised, whatever the provider answers.
C5_OneReply ==
    pc = "handled" => (~raised /\ Len(replies) = 1)

\* C6: the quote-all reply and the broadcast text hold one block per ticker
\* of the watchlist, block i being ticker i's, whatever the provider
\* answers for each ticker.
C6_OneBlockPerTicker ==
    LET complete(t) ==
            LET blocks == SplitBlocks(t)
            IN /\ Len(blocks) = Len(WatchlistBefore)
               /\ \A i \in 1..Len(blocks) :
                     StartsWith(blocks[i], Remove(WatchlistBefore[i], TW_SUFFIX))
    IN /\ Handled("price") => (~raised /\ Len(replies) = 1 /\ complete(replies[1]))
       /\ (pc = "pushed" /\ users # <<>>)
             => /\ ~raised
                /\ Len(pushes) = Len(users)
                /\ \A i \in 1..Len(pushes) :
                      complete(SubSeq(pushes[i].text,
                                      Len(PUSH_PRE) + Len(NowText(13)) + Len(PUSH_POST) + 1,
                                      Len(pushes[i].text)))

\* the TickerCode grammar: digits, or digits followed by ".TW"
ValidTickerCode(c) ==
    \/ IsDigit(c)
    \/ EndsWith(c, TW_SUFFIX) /\ IsDigit(SubSeq(c, 1, Len(c) - Len(TW_SUFFIX)))

\* C9: no provider request is issued for a code outside the TickerCode
\* grammar.
C9_NoMalformedRequest ==
    \A i \in 1..Len(requests) : ValidTickerCode(requests[i].data_id)

\* C10: a track of a ticker that is already in the watchlist leaves the set
\* unchanged and replies otherwise than the Added reply of a new ticker.
C10_AlreadyPresent ==
    (Handled("track") /\ CodeOf(Cmd, KW_TRACK) \in ToSet(WatchlistBefore))
        => /\ ToSet(Watchlist) = ToSet(WatchlistBefore)
           /\ replies # <<AddedReply(CodeOf(Cmd, KW_TRACK))>>

(***************************************************************************)
(* Properties of quote resolution (specification SpecResolve).             *)
(***************************************************************************)
\* the price requests among the requests of the handler
PriceRequests ==
    LET IsPrice(r) == r.dataset = "TaiwanStockPrice"
    IN SelectSeq(requests, IsPrice)

\* the dates of the window D .. D-4 for which the provider holds a record
RecordDates == {i \in 0..(WINDOW - 1) : prov.price[i] = "rec"}
FirstRecord == CHOOSE i \in RecordDates : \A j \in RecordDates : i <= j

\* C7: the price lookups go D, D-1, ... one day at a time, at most 5 of
\* them, and none after the name lookup that follows the first record;
\* a resolution that returns gives the record of the most recent date of
\* D .. D-4 that has one, after exactly the lookups down to that date, and
\* the NotFound text after 5 lookups when none of these dates has one; and
\* it returns whenever the lookups down to that date and the name lookup
\* are answered.
C7_WalkBack ==
    pc = "handled" =>
        /\ Len(PriceRequests) <= WINDOW
        /\ \A i \in 1..Len(PriceRequests) :
              PriceRequests[i] = PriceRequest(WithTW(Cmd), i - 1)
        /\ \A i \in 1..Len(requests) :
              requests[i].dataset = "TaiwanStockInfo" => i = Len(requests)
        /\ ~raised =>
              IF RecordDates # {}
              THEN /\ replies = <<QuoteText(WithTW(Cmd), get_stock_name(prov), FirstRecord)>>
                   /\ Len(PriceRequests) = FirstRecord + 1
                   /\ requests[Len(requests)] = NameRequest(WithTW(Cmd))
              ELSE /\ replies = <<NotFoundText(WithTW(Cmd))>>
                   /\ requests = PriceRequests
                   /\ Len(PriceRequests) = WINDOW
        /\ raised <=>
              IF RecordDates # {}
              THEN \/ \E i \in 0..FirstRecord : prov.price[i] = "err"
                   \/ prov.name = "err"
              ELSE \E i \in 0..(WINDOW - 1) : prov.price[i] = "err"

\* C7 witness: no record for D, D-1, D-2, a record for D-3, which is the
\* one replied
C7_Witness ==
    /\ pc = "handled"
    /\ \A i \in 0..2 : prov.price[i] = "none"
    /\ prov.price[3] = "rec"
    /\ prov.name = "name"
    /\ replies = <<QuoteText(WithTW(Cmd), STOCK_NAME, 3)>>
    /\ Len(requests) = 5

(***************************************************************************)
(* The scheduler thread (specification SpecSched).                         *)
(***************************************************************************)
\* time.sleep(30) and time.sleep(60)
POLL == 30
COOLDOWN == 60

\* now.hour and now.minute of the wall clock c; the minute c falls in
HourOf(c) == (c % (24 * 3600)) \div 3600
MinuteOf(c) == (c % 3600) \div 60
AbsMinute(c) == c \div 60

\* now.hour in [13, 14] and now.minute == 0
Triggers(c) == HourOf(c) \in {13, 14} /\ MinuteOf(c) = 0

\* the next reading of the clock after a broadcast of d seconds, without
\* the sleep of 60 seconds
AfterBroadcast_NoCoolDown(c, d) == c + d + POLL

\* the next reading of the clock after a broadcast of d seconds that began
\* at c: time.sleep(60), then time.sleep(30)
AfterBroadcast(c, d) == c + d + COOLDOWN + POLL

\* the next reading of the clock when c is no trigger minute
AfterIdle(c) == c + POLL

InitSched ==
    /\ file = SEED
    /\ users = <<"U1">>
    /\ clock \in StartFrom..(StartFrom + POLL - 1)
    /\ Started

\* one turn of the loop at a trigger minute: push_stock_message(), then the
\* two sleeps; an exception out of push_stock_message ends the thread
SchedulerFire ==
    /\ schedAlive
    /\ clock <= Horizon
    /\ Triggers(clock)
    /\ fired' = Append(fired, AbsMinute(clock))
    /\ \E d \in 0..MaxDuration : \E j \in 0..MaxJitter :
         \E p \in {Prof("rec", "none", "name"), Prof("err", "none", "name")} :
            LET r == push_stock_message(users, file, HourOf(clock),
                                        [k \in 1..Len(load_tickers(file)) |-> p], {})
            IN /\ schedAlive' = ~r.raised
               /\ pushes' = r.pushes
               /\ clock' = IF r.raised THEN clock + d ELSE AfterBroadcast(clock, d) + j
    /\ UNCHANGED <<file, users, pc, text, before, replies, raised, requests, saves,
                   reads, prov, thr>>

\* one turn of the loop outside the trigger minutes: time.sleep(30)
SchedulerSleep ==
    /\ schedAlive
    /\ clock <= Horizon
    /\ ~Triggers(clock)
    /\ \E j \in 0..MaxJitter : clock' = AfterIdle(clock) + j
    /\ UNCHANGED <<file, users, pc, text, before, replies, raised, requests, saves,
                   pushes, reads, prov, thr, schedAlive, fired>>

NextSched == SchedulerFire \/ SchedulerSleep

SpecSched == InitSched /\ [][NextSched]_vars

\* C8: push_stock_message is called only in a trigger minute, and never
\* twice for the same trigger point (hour 13 or 14 of one day), hence never
\* twice within one matching minute.
C8_OncePerTrigger ==
    /\ \A i \in 1..Len(fired) :
          /\ fired[i] % 60 = 0
          /\ (fired[i] \div 60) % 24 \in {13, 14}
    /\ \A i \in 1..Len(fired) : \A j \in 1..Len(fired) :
          i < j => (fired[i] \div 60) # (fired[j] \div 60)

\* C8 witness: the broadcasts of 13:00 and 14:00 and of 13:00 the day after
C8_Witness ==
    /\ Len(fired) = 3
    /\ fired[2] = fired[1] + 60
    /\ fired[3] = fired[1] + 24 * 60
    /\ schedAlive

(***************************************************************************)
(* Two messages handled at once (specification SpecConc).  The web server  *)
(* runs each callback in a thread of its own and the code takes no lock,   *)
(* so the file operations of two handlers interleave.  A handler goes      *)
(* none -> recv -> loaded -> (opened -> saved ->) done.                    *)
(***************************************************************************)
\* "追蹤 1", "追蹤 A", "刪除 2330", "刪除 1", "清單"
ConcTexts == {KW_TRACK \o <<32, 49>>, KW_TRACK \o <<32, 65>>,
              KW_UNTRACK \o <<32, 50, 51, 51, 48>>, KW_UNTRACK \o <<32, 49>>, KW_LIST}

\* the file after a write of content at offset 0 by a writer that opened it
\* with mode "w" earlier: what lies beyond the written part stays
WriteAtStart(f, content) == content \o SubSeq(f, Len(content) + 1, Len(f))

\* what a handler that loaded tickers does next with the stripped text:
\* the reply it will send and the content it saves, if any
AfterLoad(t, tickers) ==
    LET b == Branch(t)
    IN CASE b = "track" -> TrackBranch(t, tickers)
         [] b = "untrack" -> UntrackBranch(t, tickers)
         [] b = "list" -> [reply |-> ListReply(tickers), saves |-> <<>>]
         [] OTHER -> [reply |-> HELP, saves |-> <<>>]

InitConc ==
    /\ file \in InitFiles
    /\ users = <<>>
    /\ clock = 0
    /\ Started

ConcUnchanged ==
    UNCHANGED <<users, pc, text, before, replies, raised, requests, saves, pushes,
                reads, schedAlive, prov, clock, fired>>

\* callback hands a message to handle_message in thread t
Receive(t) ==
    /\ thr[t].pc = "none"
    /\ \E raw \in ConcTexts : thr' = [thr EXCEPT ![t].pc = "recv", ![t].raw = raw]
    /\ UNCHANGED file
    /\ ConcUnchanged

\* tickers = load_tickers()
Load(t) ==
    /\ thr[t].pc = "recv"
    /\ thr' = [thr EXCEPT ![t].pc = "loaded", ![t].tickers = load_tickers(file)]
    /\ UNCHANGED file
    /\ ConcUnchanged

\* a branch that saves: save_tickers opens the file with mode "w", which
\* truncates it
OpenForWrite(t) ==
    LET a == AfterLoad(Strip(thr[t].raw), thr[t].tickers)
    IN /\ thr[t].pc = "loaded"
       /\ a.saves # <<>>
       /\ file' = <<>>
       /\ thr' = [thr EXCEPT ![t].pc = "opened", ![t].content = a.saves[1],
                              ![t].reply = a.reply]
       /\ ConcUnchanged

\* f.write(...) and the close of the with block: the content reaches the
\* file
WriteClose(t) ==
    /\ thr[t].pc = "opened"
    /\ file' = WriteAtStart(file, thr[t].content)
    /\ thr' = [thr EXCEPT ![t].pc = "saved"]
    /\ ConcUnchanged

\* reply_message after a save
ReplySaved(t) ==
    /\ thr[t].pc = "saved"
    /\ thr' = [thr EXCEPT ![t].pc = "done"]
    /\ UNCHANGED file
    /\ ConcUnchanged

\* a branch that does not save, and reply_message
ReplyUnsaved(t) ==
    LET a == AfterLoad(Strip(thr[t].raw), thr[t].tickers)
    IN /\ thr[t].pc = "loaded"
       /\ a.saves = <<>>
       /\ thr' = [thr EXCEPT ![t].pc = "done", ![t].reply = a.reply]
       /\ UNCHANGED file
       /\ ConcUnchanged

NextConc ==
    \E t \in Threads :
        \/ Receive(t)
        \/ Load(t)
        \/ OpenForWrite(t)
        \/ WriteClose(t)
        \/ ReplySaved(t)
        \/ ReplyUnsaved(t)

SpecConc == InitConc /\ [][NextConc]_vars

\* the file after handle_message has handled raw on the file f, alone
Alone(f, raw) == AfterSaves(f, handle_message(raw, f, <<>>).saves)

\* C4: when two handlers have both finished, the watchlist is what handling
\* the two messages one after the other, in one of the two orders, leaves.
C4_NoLostUpdate ==
    (\A t \in Threads : thr[t].pc = "done")
        => \/ load_tickers(file) = load_tickers(Alone(Alone(before, thr[1].raw), thr[2].raw))
           \/ load_tickers(file) = load_tickers(Alone(Alone(before, thr[2].raw), thr[1].raw))

(***************************************************************************)
(* A crash of the process while one message is handled (specification      *)
(* SpecCrash): the handler of thread 1 runs step by step as above, and the *)
(* process may be killed between any two steps.  The file keeps what had   *)
(* reached it.                                                             *)
(***************************************************************************)
\* the messages of the list, track and untrack branches
CrashTexts == TextsOf("list") \cup TextsOf("track") \cup TextsOf("untrack")

\* callback hands one of these messages to handle_message in thread t
ReceiveCommand(t) ==
    /\ pc = "idle"
    /\ thr[t].pc = "none"
    /\ \E raw \in CrashTexts : thr' = [thr EXCEPT ![t].pc = "recv", ![t].raw = raw]
    /\ UNCHANGED file
    /\ ConcUnchanged

\* the process is killed while handle_message runs, or after its reply
Crash ==
    /\ pc = "idle"
    /\ thr[1].pc # "none"
    /\ pc' = "crashed"
    /\ UNCHANGED <<file, users, text, before, replies, raised, requests, saves, pushes,
                   reads, schedAlive, prov, thr, clock, fired>>

\* a step of the handler of thread 1 while the process lives
CrashStep(A) == pc = "idle" /\ A

NextCrash ==
    \/ ReceiveCommand(1)
    \/ CrashStep(Load(1))
    \/ CrashStep(OpenForWrite(1))
    \/ CrashStep(WriteClose(1))
    \/ CrashStep(ReplySaved(1))
    \/ CrashStep(ReplyUnsaved(1))
    \/ Crash

SpecCrash == InitConc /\ [][NextCrash]_vars

\* C11: the success reply of a track or untrack is sent only after
\* save_tickers has completed, the file then holding the mutated watchlist;
\* and whenever the process is killed during the call, the watchlist in the
\* file is either the one from before the command or the one after it.
C11_CommitBeforeReply ==
    /\ (thr[1].pc = "done" /\ thr[1].reply \notin {USAGE, HELP}
        /\ Branch(Strip(thr[1].raw)) \in {"track", "untrack"}
        /\ load_tickers(Alone(before, thr[1].raw)) # load_tickers(before))
           => load_tickers(file) = load_tickers(Alone(before, thr[1].raw))
    /\ pc = "crashed"
           => load_tickers(file) \in {load_tickers(before),
                                      load_tickers(Alone(before, thr[1].raw))}

(***************************************************************************)
(* Further properties of the dispatcher, the watchlist and the broadcast   *)
(* (specification Spec).                                                   *)
(***************************************************************************)
\* C12: a restart keeps the watchlist: after the module initialisation has
\* run again, tickers.txt holds what the earlier run left, and the seed is
\* not written over it; a file left empty stays empty.
C12_SurvivesRestart ==
    pc = "restarted" => /\ file = before
                        /\ (before = <<>> => Watchlist = <<>>)

\* C12 witness: a restart after 2330 and 2010 of the seed were untracked:
\* the file still holds the six tickers that were left
C12_Witness ==
    /\ pc = "restarted"
    /\ ToSet(Watchlist) \cap SeedPicks = {}
    /\ Len(Watchlist) = Len(load_tickers(SEED)) - 2

(***************************************************************************)
(* The derived fields of a quote (specification SpecResolve).              *)
(***************************************************************************)
\* the derived fields of a record with open o and close c, the percentage
\* in hundredths of a percent, rounded toward zero
ChangeAbs(o, c) == c - o
Magnitude(n) == IF n < 0 THEN 0 - n ELSE n
ChangePctHundredths(o, c) ==
    IF o = 0 THEN 0
    ELSE LET q == (Magnitude(ChangeAbs(o, c)) * 10000) \div o
         IN IF ChangeAbs(o, c) < 0 THEN 0 - q ELSE q
Direction(o, c) ==
    IF ChangeAbs(o, c) > 0 THEN "up" ELSE IF ChangeAbs(o, c) < 0 THEN "down" ELSE "flat"

\* the decimal digits of a natural number
RECURSIVE Digits(_)
Digits(n) == IF n < 10 THEN <<48 + n>> ELSE Digits(n \div 10) \o <<48 + (n % 10)>>

\* a number of hundredths written with two decimals: 500 is "5.00"
Decimal2(h) ==
    (IF h < 0 THEN <<45>> ELSE <<>>)
        \o Digits(Magnitude(h) \div 100) \o <<46>>
        \o <<48 + ((Magnitude(h) % 100) \div 10), 48 + (Magnitude(h) % 10)>>

\* sub occurs in s
Contains(s, sub) ==
    \E k \in 0..(Len(s) - Len(sub)) : SubSeq(s, k + 1, k + Len(sub)) = sub

\* C13: the quote returned for a resolved record shows changeAbs = close -
\* open and changePct = changeAbs / open * 100 (0 when open is 0), written
\* with two decimals as in "5.00".
C13_DerivedInQuote ==
    (Handled("one") /\ ~raised /\ RecordDates # {})
        => /\ Len(replies) = 1
           /\ Contains(replies[1],
                       Decimal2(100 * ChangeAbs(prov.open, CloseValue(FirstRecord))))
           /\ Contains(replies[1],
                       Decimal2(ChangePctHundredths(prov.open, CloseValue(FirstRecord))))

(***************************************************************************)
(* What a handler reads while another one writes (specification SpecConc). *)
(***************************************************************************)
\* the other handler thread
Other(t) == CHOOSE u \in Threads : u # t

\* C14: the tickers load_tickers returned to a handler are the watchlist as
\* it stood before the command handled by the other thread or after it,
\* never the content of the file between the two.
C14_Snapshot ==
    \A t \in Threads :
        thr[t].pc \in {"loaded", "opened", "saved", "done"}
            => thr[t].tickers \in {load_tickers(before),
                                   load_tickers(Alone(before, thr[Other(t)].raw))}

(***************************************************************************)
(* The scheduler and a failing provider (specification SpecSched).         *)
(***************************************************************************)
\* C15: whatever the provider answers during a broadcast, the message is
\* pushed to every subscriber and the scheduler thread stays alive for the
\* next trigger.
C15_BroadcastSurvives ==
    /\ schedAlive
    /\ fired # <<>> => Len(pushes) = Len(users)

(***************************************************************************)
(* Parsing and the frame of the commands (specification Spec).             *)
(***************************************************************************)
\* the keyword the handled message begins with has nothing after it
EmptyRemainder ==
    \/ Handled("track") /\ CodeOf(Cmd, KW_TRACK) = <<>>
    \/ Handled("untrack") /\ CodeOf(Cmd, KW_UNTRACK) = <<>>

\* C16: a track or an untrack whose remainder is empty replies the usage
\* hint and leaves the store alone.
C16_UsageHint ==
    EmptyRemainder => /\ replies = <<USAGE>>
                      /\ saves = <<>>
                      /\ file = before


\* the command a text stands for when keywords are matched as prefixes
PrefixCommand(t) ==
    CASE StartsWith(t, KW_LIST) -> "list"
      [] StartsWith(t, KW_TRACK) -> "track"
      [] StartsWith(t, KW_UNTRACK) -> "untrack"
      [] StartsWith(t, KW_PRICE) -> "price"
      [] IsDigit(t) -> "one"
      [] OTHER -> "help"

\* C17: a text that begins with one of the four keywords is handled by that
\* keyword's command, a bare numeric text by quote-one, and only the other
\* texts get the help text.
C17_PrefixDispatch ==
    pc = "handled"
        => /\ PrefixCommand(Cmd) = "help" <=> replies = <<HELP>>
           /\ PrefixCommand(Cmd) = "list" => replies = <<ListReply(WatchlistBefore)>>
           /\ PrefixCommand(Cmd) \in {"price", "one"} => saves = <<>>
           /\ PrefixCommand(Cmd) \notin {"price", "one"} => requests = <<>>


\* the texts get_stock_info can return for the ticker c: a quote of one of
\* the dates D .. D-4, with or without a name, or the not-found text
PossibleBlocks(c) ==
    {QuoteText(WithTW(c), nm, k) : nm \in {STOCK_NAME, <<>>}, k \in 0..(WINDOW - 1)}
        \cup {NotFoundText(WithTW(c))}

\* the quote-all reply just sent, or the bodies of the broadcast texts just
\* pushed (what follows the header line)
BatchBodies ==
    IF Handled("price") THEN ToSet(replies)
    ELSE IF pc = "pushed"
         THEN {SubSeq(pushes[i].text,
                      Len(PUSH_PRE) + Len(NowText(13)) + Len(PUSH_POST) + 1,
                      Len(pushes[i].text)) : i \in 1..Len(pushes)}
         ELSE {}

\* C18: a quote-all reply and a broadcast body are the blocks of the
\* watchlist's tickers in the order load_tickers returned them, block i
\* being a text for ticker i, with one blank line between two blocks.
C18_BlocksInOrder ==
    \A body \in BatchBodies :
        LET blocks == SplitBlocks(body)
        IN /\ Len(blocks) = Len(WatchlistBefore)
           /\ \A i \in 1..Len(blocks) : blocks[i] \in PossibleBlocks(WatchlistBefore[i])
           /\ body = Join(blocks, BLANK_LINE)

\* C18 witness: a quote-all reply over three tickers of which the second
\* has no record and the others a quote, and a broadcast of the same kind
C18_Witness ==
    /\ BatchBodies # {}
    /\ Len(WatchlistBefore) = 3
    /\ WatchlistBefore[1] # WatchlistBefore[3]
    /\ \A body \in BatchBodies :
          /\ SplitBlocks(body)[1] = QuoteText(WithTW(WatchlistBefore[1]), STOCK_NAME, 0)
          /\ SplitBlocks(body)[2] = NotFoundText(WithTW(WatchlistBefore[2]))
          /\ SplitBlocks(body)[3] = QuoteText(WithTW(WatchlistBefore[3]), STOCK_NAME, 0)


\* the remainder after the keyword of the track or untrack just handled
NamedTicker ==
    IF Branch(Cmd) = "track" THEN CodeOf(Cmd, KW_TRACK) ELSE CodeOf(Cmd, KW_UNTRACK)

\* C19: only a track with a non-empty code and an untrack of a ticker of
\* the watchlist call save_tickers; every other command and the broadcast
\* leave the file as it was; and a command that saves changes the
\* membership of no ticker but the one it names.
C19_Frame ==
    pc \in {"handled", "pushed"}
        => /\ saves = <<>> => file = before
           /\ saves # <<>>
                 => \/ Handled("track") /\ NamedTicker # <<>>
                    \/ Handled("untrack") /\ NamedTicker \in ToSet(WatchlistBefore)
           /\ \A c \in ToSet(Watchlist) \cup ToSet(WatchlistBefore) :
                 (c \in ToSet(Watchlist)) # (c \in ToSet(WatchlistBefore))
                     => c = NamedTicker


\* the first price request of each get_stock_info call of the broadcast
FirstDayRequests ==
    LET IsFirst(r) == r.dataset = "TaiwanStockPrice" /\ r.offset = 0
    IN SelectSeq(requests, IsFirst)

\* C20: a broadcast with no subscriber reads nothing and asks the provider
\* nothing; otherwise the watchlist is read once and each ticker resolved
\* once, and the one text composed is pushed to every subscriber in the
\* configured order, an attempt that fails not stopping the later ones.
C20_SubscriberIsolation ==
    pc = "pushed"
        => /\ users = <<>> => (reads = 0 /\ requests = <<>> /\ pushes = <<>>)
           /\ users # <<>> => reads = 1
           /\ (users # <<>> /\ ~raised)
                 => /\ Len(FirstDayRequests) = Len(WatchlistBefore)
                    /\ Len(pushes) = Len(users)
                    /\ \A i \in 1..Len(pushes) :
                          /\ pushes[i].uid = users[i]
                          /\ pushes[i].text = pushes[1].text

\* C20 witness: two subscribers, the push to the first fails and the push
\* to the second is made and succeeds
C20_Witness ==
    /\ pc = "pushed"
    /\ Len(users) = 2
    /\ Len(pushes) = 2
    /\ ~pushes[1].ok
    /\ pushes[2].ok
    /\ WatchlistBefore # <<>>

=============================================================================
